---------------------------- MODULE Spec2Model ----------------------------
(***************************************************************************)
(* A model of the time-manager command line tool, src/time_manager/cli.py. *)
(*                                                                         *)
(* Text is a sequence of one-character strings, so that the regular        *)
(* expressions, strip() and lower() of the source act character by         *)
(* character.  A date is a triple <<year, month, day>>; date arithmetic    *)
(* goes through the proleptic Gregorian ordinal, as datetime.date does.    *)
(*                                                                         *)
(* Specifications:                                                         *)
(*   SpecDuration  parse_duration on every token of a bounded alphabet     *)
(*   SpecEntry     parse_voice_or_text_input on bounded sentences          *)
(*   SpecSummary   summarize_entries and analyze_totals                    *)
(*   SpecPeriod    parse_period on reference dates                         *)
(*   Spec          the commands of main(), run one at a time on one file   *)
(*   SpecConc      two log commands interleaved on one file                *)
(***************************************************************************)
EXTENDS Integers, Sequences, FiniteSets, TLC

VARIABLES
    value, durOut,                      \* parse_duration: argument, outcome
    text, entryOut,                     \* parse_voice_or_text_input
    entriesIn, sumOut,                  \* summarize_entries / analyze_totals
    period, reference, periodOut,       \* parse_period
    fs, clock, cmd, exitCode, stdout,   \* the file system, the clock, the last command
    pc, payload, newEntry, hist         \* the two concurrent log commands

durVars    == <<value, durOut>>
entryVars  == <<text, entryOut>>
sumVars    == <<entriesIn, sumOut>>
periodVars == <<period, reference, periodOut>>
cliVars    == <<fs, clock, cmd, exitCode, stdout>>
concVars   == <<pc, payload, newEntry, hist>>
vars == <<value, durOut, text, entryOut, entriesIn, sumOut, period, reference,
          periodOut, fs, clock, cmd, exitCode, stdout, pc, payload, newEntry, hist>>

\* The value of a variable that a specification does not use.
Idle == "idle"

(***************************************************************************)
(* Characters and strings                                                  *)
(***************************************************************************)
Digits == <<"0", "1", "2", "3", "4", "5", "6", "7", "8", "9">>
UpperCase == <<"A", "B", "C", "D", "E", "F", "G", "H", "I", "J", "K", "L", "M",
               "N", "O", "P", "Q", "R", "S", "T", "U", "V", "W", "X", "Y", "Z">>
LowerCase == <<"a", "b", "c", "d", "e", "f", "g", "h", "i", "j", "k", "l", "m",
               "n", "o", "p", "q", "r", "s", "t", "u", "v", "w", "x", "y", "z">>

IsDigit(c) == \E k \in 1..10 : Digits[k] = c
DigitVal(c) == (CHOOSE k \in 1..10 : Digits[k] = c) - 1
IsSpace(c) == c \in {" ", "\t", "\n", "\r"}

\* str.lower(), one character.
lower_char(c) ==
    IF \E k \in 1..26 : UpperCase[k] = c
    THEN LowerCase[CHOOSE k \in 1..26 : UpperCase[k] = c]
    ELSE c

\* str.lower()
lower(s) == [i \in 1..Len(s) |-> lower_char(s[i])]

\* s[a..b] (1-based, inclusive); empty when a > b.
Slice(s, a, b) == IF a > b THEN <<>> ELSE SubSeq(s, a, b)

RECURSIVE lstrip(_)
lstrip(s) == IF s # <<>> /\ IsSpace(Head(s)) THEN lstrip(Tail(s)) ELSE s

RECURSIVE rstrip(_)
rstrip(s) ==
    IF s # <<>> /\ IsSpace(s[Len(s)]) THEN rstrip(SubSeq(s, 1, Len(s) - 1)) ELSE s

\* str.strip()
strip(s) == rstrip(lstrip(s))

\* int() of a string of decimal digits.
RECURSIVE int(_)
int(s) == IF s = <<>> THEN 0 ELSE 10 * int(SubSeq(s, 1, Len(s) - 1)) + DigitVal(s[Len(s)])

RECURSIVE Pow10(_)
Pow10(n) == IF n = 0 THEN 1 ELSE 10 * Pow10(n - 1)

\* The end of the longest run of digits that starts at i (i - 1 when s[i] is no digit).
RECURSIVE digits_end(_, _)
digits_end(s, i) ==
    IF i <= Len(s) /\ IsDigit(s[i]) THEN digits_end(s, i + 1) ELSE i - 1

\* Whether s has character c at position i.
At(s, i, c) == i >= 1 /\ i <= Len(s) /\ s[i] = c

(***************************************************************************)
(* parse_duration                                                          *)
(***************************************************************************)
NoMatch == [found |-> FALSE, whole |-> <<>>, frac |-> <<>>]

\* re.fullmatch(r"\d+", value)
fullmatch_digits(s) == s # <<>> /\ \A i \in 1..Len(s) : IsDigit(s[i])

\* The match of (\d+(?:\.\d+)?)h that starts at i, if there is one.  \d+ is
\* greedy; giving digits back cannot make a match, since the character after a
\* shorter run is a digit, which is neither "." nor "h".
hour_match_at(s, i) ==
    LET j == digits_end(s, i)
        l == digits_end(s, j + 2)
    IN  IF j < i THEN NoMatch
        ELSE IF At(s, j + 1, ".") /\ l >= j + 2 /\ At(s, l + 1, "h")
        THEN [found |-> TRUE, whole |-> Slice(s, i, j), frac |-> Slice(s, j + 2, l)]
        ELSE IF At(s, j + 1, "h")
        THEN [found |-> TRUE, whole |-> Slice(s, i, j), frac |-> <<>>]
        ELSE NoMatch

\* re.search(r"(\d+(?:\.\d+)?)h", value): the leftmost match, from position i on.
RECURSIVE search_hours(_, _)
search_hours(s, i) ==
    IF i > Len(s) THEN NoMatch
    ELSE IF hour_match_at(s, i).found THEN hour_match_at(s, i)
    ELSE search_hours(s, i + 1)

\* The match of (\d+)m that starts at i, if there is one.
minute_match_at(s, i) ==
    LET j == digits_end(s, i)
    IN  IF j >= i /\ At(s, j + 1, "m")
        THEN [found |-> TRUE, whole |-> Slice(s, i, j), frac |-> <<>>]
        ELSE NoMatch

\* re.search(r"(\d+)m", value)
RECURSIVE search_minutes(_, _)
search_minutes(s, i) ==
    IF i > Len(s) THEN NoMatch
    ELSE IF minute_match_at(s, i).found THEN minute_match_at(s, i)
    ELSE search_minutes(s, i + 1)

\* int(float(whole.frac) * 60 + minutes).  The hours are the exact decimal
\* whole.frac; for the tokens of DurationChars up to MaxToken + 1 characters the
\* double that Python computes truncates to the same integer.
hours_to_minutes(whole, frac, minutes) ==
    ((int(whole) * Pow10(Len(frac)) + int(frac)) * 60) \div Pow10(Len(frac)) + minutes

Failure(msg) == [ok |-> FALSE, minutes |-> 0, err |-> msg]
Minutes(n) == [ok |-> TRUE, minutes |-> n, err |-> ""]

\* The test that makes parse_duration raise: hours == 0 and minutes == 0.
nothing_parsed(hm, mm) ==
    /\ (hm.found => int(hm.whole) = 0 /\ int(hm.frac) = 0)
    /\ (mm.found => int(mm.whole) = 0)

parse_duration(raw) ==
    LET v  == lower(strip(raw))
        hm == search_hours(v, 1)
        mm == search_minutes(v, 1)
    IN  IF fullmatch_digits(v) THEN Minutes(int(v))
        ELSE IF nothing_parsed(hm, mm) THEN Failure("Unable to parse duration")
        ELSE Minutes(hours_to_minutes(IF hm.found THEN hm.whole ELSE <<>>,
                                      IF hm.found THEN hm.frac ELSE <<>>,
                                      IF mm.found THEN int(mm.whole) ELSE 0))

(***************************************************************************)
(* SpecDuration: parse_duration applied to every token                     *)
(***************************************************************************)
\* The longest token.
MaxToken == 4
\* The characters of a token: digits (0 among them), both unit letters, the
\* decimal point, an upper-case letter for lower() and a blank for strip().
DurationChars == {"0", "1", "5", "h", "m", ".", "H", " "}
Tokens == UNION {[1..k -> DurationChars] : k \in 0..MaxToken}

DurIdle    == value = Idle /\ durOut = Idle
EntryIdle  == text = Idle /\ entryOut = Idle
SumIdle    == entriesIn = Idle /\ sumOut = Idle
PeriodIdle == period = Idle /\ reference = Idle /\ periodOut = Idle
CliIdle    == fs = Idle /\ clock = Idle /\ cmd = Idle /\ exitCode = Idle /\ stdout = Idle
ConcIdle   == pc = Idle /\ payload = Idle /\ newEntry = Idle /\ hist = Idle

InitDuration ==
    /\ value \in Tokens
    /\ durOut = <<>>
    /\ EntryIdle /\ SumIdle /\ PeriodIdle /\ CliIdle /\ ConcIdle

\* One call of parse_duration(value); durOut holds what it returned or raised.
ParseDuration ==
    /\ durOut = <<>>
    /\ durOut' = <<parse_duration(value)>>
    /\ UNCHANGED <<value, entryVars, sumVars, periodVars, cliVars, concVars>>

NextDuration == ParseDuration
SpecDuration == InitDuration /\ [][NextDuration]_vars

\* A number of the hour pattern: digits, or digits "." digits.
IsNumber(t) ==
    \/ fullmatch_digits(t)
    \/ \E k \in 2..(Len(t) - 1) :
          /\ t[k] = "."
          /\ fullmatch_digits(SubSeq(t, 1, k - 1))
          /\ fullmatch_digits(SubSeq(t, k + 1, Len(t)))

\* The places <<a, b>> of s that hold a component: a number (an integer for the
\* minutes) in s[a..b-1] and the unit letter at b.
HourComponents(s) ==
    {ab \in (1..Len(s)) \X (1..Len(s)) :
        ab[1] < ab[2] /\ s[ab[2]] = "h" /\ IsNumber(SubSeq(s, ab[1], ab[2] - 1))}
MinuteComponents(s) ==
    {ab \in (1..Len(s)) \X (1..Len(s)) :
        ab[1] < ab[2] /\ s[ab[2]] = "m" /\ fullmatch_digits(SubSeq(s, ab[1], ab[2] - 1))}
\* The leftmost component of a non-empty set of places, as text.
FirstComponent(s, places) ==
    LET ab == CHOOSE p \in places : \A q \in places : p[1] <= q[1]
    IN  SubSeq(s, ab[1], ab[2] - 1)
\* floor(number * 60) for a number of the hour pattern.
FloorTimes60(t) ==
    LET dot == IF \E k \in 1..Len(t) : t[k] = "." THEN CHOOSE k \in 1..Len(t) : t[k] = "." ELSE Len(t) + 1
        w == SubSeq(t, 1, dot - 1)
        f == Slice(t, dot + 1, Len(t))
    IN  ((int(w) * Pow10(Len(f)) + int(f)) * 60) \div Pow10(Len(f))

\* What the duration parser is specified to return for token raw.
SpecifiedDuration(raw) ==
    LET v  == lower(strip(raw))
        hs == HourComponents(v)
        ms == MinuteComponents(v)
    IN  IF fullmatch_digits(v) THEN Minutes(int(v))
        ELSE IF hs = {} /\ ms = {} THEN Failure("Unable to parse duration")
        ELSE Minutes((IF hs = {} THEN 0 ELSE FloorTimes60(FirstComponent(v, hs)))
                     + (IF ms = {} THEN 0 ELSE int(FirstComponent(v, ms))))

\* C3: parse_duration returns the digits of an all-digit token as minutes,
\* returns floor(hours * 60) + minutes whenever the token holds an hour or a
\* minute component, a zero one included, and fails only when it holds neither.
C3_parse_duration_as_specified ==
    durOut # <<>> =>
        /\ durOut[1].ok = SpecifiedDuration(value).ok
        /\ durOut[1].minutes = SpecifiedDuration(value).minutes

\* The same, for the tokens whose components are not all zero: there the code
\* and the specified result agree.
parse_duration_agrees_off_zero ==
    (durOut # <<>> /\ ~(durOut[1].ok = FALSE /\ SpecifiedDuration(value).ok)) =>
        /\ durOut[1].ok = SpecifiedDuration(value).ok
        /\ durOut[1].minutes = SpecifiedDuration(value).minutes
parse_duration_fails_only_on_zero ==
    (durOut # <<>> /\ ~durOut[1].ok /\ SpecifiedDuration(value).ok) =>
        SpecifiedDuration(value).minutes = 0

(***************************************************************************)
(* parse_voice_or_text_input                                               *)
(***************************************************************************)
\* str.find: the first place at or after i where pat occurs in s, 0 if none.
RECURSIVE find(_, _, _)
find(s, pat, i) ==
    IF i + Len(pat) - 1 > Len(s) THEN 0
    ELSE IF SubSeq(s, i, i + Len(pat) - 1) = pat THEN i
    ELSE find(s, pat, i + 1)

\* The end of the longest run of white space (ws) or of other characters that
\* starts at i (i - 1 when the run is empty).
RECURSIVE run_end(_, _, _)
run_end(s, i, ws) ==
    IF i <= Len(s) /\ IsSpace(s[i]) = ws THEN run_end(s, i + 1, ws) ELSE i - 1

NoteMarker == <<"n", "o", "t", "e", ":">>
ForWord == <<"f", "o", "r">>

\* text.split("note:", 1) when the marker occurs: the text before the first
\* marker and the stripped text after it; the whole text and "" otherwise.
split_note(s) ==
    LET p == find(s, NoteMarker, 1)
    IN  IF p = 0 THEN [text |-> s, note |-> <<>>]
        ELSE [text |-> Slice(s, 1, p - 1), note |-> strip(Slice(s, p + 5, Len(s)))]

NoForMatch == [found |-> FALSE, start |-> 0, token |-> <<>>]

\* The match of for\s+([^\s]+) that starts at i, if there is one: both runs are
\* greedy, and a shorter run of white space would leave white space where the
\* token has to start.
for_match_at(s, i) ==
    LET w == run_end(s, i + 3, TRUE)
        t == run_end(s, w + 1, FALSE)
    IN  IF i + 2 <= Len(s) /\ SubSeq(s, i, i + 2) = ForWord /\ w >= i + 3 /\ t >= w + 1
        THEN [found |-> TRUE, start |-> i, token |-> SubSeq(s, w + 1, t)]
        ELSE NoForMatch

\* The last match instead of the first.
RECURSIVE search_for_last(_, _)
search_for_last(s, i) ==
    IF i > Len(s) THEN NoForMatch
    ELSE IF search_for_last(s, i + 1).found THEN search_for_last(s, i + 1)
    ELSE for_match_at(s, i)

\* re.search(r"for\s+([^\s]+)", text): the leftmost match, from position i on.
RECURSIVE search_for(_, _)
search_for(s, i) ==
    IF i > Len(s) THEN NoForMatch
    ELSE IF for_match_at(s, i).found THEN for_match_at(s, i)
    ELSE search_for(s, i + 1)

ParseError(msg) ==
    [ok |-> FALSE, err |-> msg, timestamp |-> <<>>, activity |-> <<>>,
     duration_minutes |-> 0, note |-> <<>>]
TimeEntry(ts, a, d, n) ==
    [ok |-> TRUE, err |-> "", timestamp |-> ts, activity |-> a,
     duration_minutes |-> d, note |-> n]

\* parse_voice_or_text_input(text), called at time now.
parse_voice_or_text_input(raw, now) ==
    LET sp == split_note(raw)
        m  == search_for(sp.text, 1)
        d  == parse_duration(m.token)
        a  == strip(Slice(sp.text, 1, m.start - 1))
    IN  IF ~m.found THEN ParseError("Input must include duration with 'for <duration>'.")
        ELSE IF ~d.ok THEN ParseError(d.err)
        ELSE IF a = <<>> THEN ParseError("Activity cannot be empty.")
        ELSE TimeEntry(now, a, d.minutes, sp.note)

(***************************************************************************)
(* SpecEntry: parse_voice_or_text_input applied to bounded sentences       *)
(***************************************************************************)
\* The most pieces a sentence is made of.
MaxPieces == 4
\* The pieces: an activity word, the duration marker with and without its
\* blank, a blank, duration tokens (a zero one and an upper-case one among
\* them) and a note.
Pieces == <<
    <<"a", " ">>,
    <<"f", "o", "r", " ">>,
    <<"f", "o", "r">>,
    <<" ">>,
    <<"5", "m">>,
    <<"0", "m">>,
    <<"1", ".", "5", "H">>,
    <<" ", "n", "o", "t", "e", ":", " ", "b", " ">> >>

RECURSIVE Concat(_)
Concat(ps) == IF ps = <<>> THEN <<>> ELSE Pieces[Head(ps)] \o Concat(Tail(ps))
Sentences == UNION {{Concat(ps) : ps \in [1..k -> 1..Len(Pieces)]} : k \in 0..MaxPieces}

\* datetime.now().isoformat(timespec="seconds"): the date, then the time of day.
Timestamp(date, seconds) == <<date[1], date[2], date[3], seconds>>
\* timestamp[:10]
DateOf(ts) == <<ts[1], ts[2], ts[3]>>

InitEntry ==
    /\ text \in Sentences
    /\ entryOut = <<>>
    /\ DurIdle /\ SumIdle /\ PeriodIdle /\ CliIdle /\ ConcIdle

\* One call of parse_voice_or_text_input(text).
ParseEntry ==
    /\ entryOut = <<>>
    /\ entryOut' = <<parse_voice_or_text_input(text, Timestamp(<<2024, 3, 15>>, 0))>>
    /\ UNCHANGED <<text, durVars, sumVars, periodVars, cliVars, concVars>>

NextEntry == ParseEntry
SpecEntry == InitEntry /\ [][NextEntry]_vars

\* The places of s where pat occurs.
Occurrences(s, pat) ==
    {p \in 1..Len(s) : p + Len(pat) - 1 <= Len(s) /\ SubSeq(s, p, p + Len(pat) - 1) = pat}
Least(S) == CHOOSE p \in S : \A q \in S : p <= q
\* The text before the first note marker, and the text after it.
BeforeNote(s) ==
    IF Occurrences(s, NoteMarker) = {} THEN s
    ELSE Slice(s, 1, Least(Occurrences(s, NoteMarker)) - 1)
AfterNote(s) ==
    IF Occurrences(s, NoteMarker) = {} THEN <<>>
    ELSE Slice(s, Least(Occurrences(s, NoteMarker)) + 5, Len(s))
\* Where a token starts after the "for" at i: after one or more blanks.
TokenStarts(s, i) ==
    {k \in (i + 4)..Len(s) : ~IsSpace(s[k]) /\ \A j \in (i + 3)..(k - 1) : IsSpace(s[j])}
\* The places where "for", white space and a token occur.
ForPlaces(s) == {i \in Occurrences(s, ForWord) : TokenStarts(s, i) # {}}
\* The token after the "for" at i: up to the next white space or the end.
TokenAfter(s, i) ==
    LET k == Least(TokenStarts(s, i))
        e == Least({e \in k..Len(s) : e = Len(s) \/ IsSpace(s[e + 1])})
    IN  SubSeq(s, k, e)

\* C4: the note is the trimmed text after the first note marker; in the text
\* before it the first "for <token>" gives the duration token and the activity
\* is the trimmed text before that match; the parse fails exactly when there is
\* no match, the token does not parse or the activity is empty, and otherwise
\* yields a non-empty activity and a non-negative duration.
C4_entry_parse ==
    entryOut # <<>> =>
        LET e  == entryOut[1]
            b  == BeforeNote(text)
            fp == ForPlaces(b)
            i  == Least(fp)
        IN  /\ e.ok = (/\ fp # {}
                       /\ parse_duration(TokenAfter(b, i)).ok
                       /\ strip(Slice(b, 1, i - 1)) # <<>>)
            /\ e.ok =>
                  /\ e.note = strip(AfterNote(text))
                  /\ e.activity = strip(Slice(b, 1, i - 1))
                  /\ e.duration_minutes = parse_duration(TokenAfter(b, i)).minutes
                  /\ e.activity # <<>>
                  /\ e.duration_minutes \in Nat

\* A sentence with an upper-case fractional duration and a note has been
\* parsed into an entry.
C4_witness ==
    /\ entryOut # <<>>
    /\ entryOut[1].ok
    /\ entryOut[1].note # <<>>
    /\ entryOut[1].duration_minutes = 90

(***************************************************************************)
(* summarize_entries, analyze_totals, build_report                         *)
(***************************************************************************)
\* A dict is the sequence of its items [key, val] in insertion order.
dict_has(d, k) == \E i \in 1..Len(d) : d[i].key = k
dict_get(d, k, default) ==
    IF dict_has(d, k) THEN d[CHOOSE i \in 1..Len(d) : d[i].key = k].val ELSE default
\* d[k] = v: in place when k is a key of d, at the end otherwise.
dict_set(d, k, v) ==
    IF dict_has(d, k)
    THEN [i \in 1..Len(d) |-> IF d[i].key = k THEN [key |-> k, val |-> v] ELSE d[i]]
    ELSE Append(d, [key |-> k, val |-> v])

\* sum(d.values())
RECURSIVE sum_values(_)
sum_values(d) == IF d = <<>> THEN 0 ELSE Head(d).val + sum_values(Tail(d))

\* item put into a sequence sorted by ascending val, after the items that are
\* not larger.
RECURSIVE insert_asc(_, _)
insert_asc(sorted, item) ==
    IF sorted = <<>> THEN <<item>>
    ELSE IF Head(sorted).val <= item.val
    THEN <<Head(sorted)>> \o insert_asc(Tail(sorted), item)
    ELSE <<item>> \o sorted

RECURSIVE sort_asc(_)
sort_asc(items) ==
    IF items = <<>> THEN <<>>
    ELSE insert_asc(sort_asc(SubSeq(items, 1, Len(items) - 1)), items[Len(items)])

\* sorted(items, key=val)[::-1]: descending, but equal items in reverse order.
sorted_then_reversed(items) ==
    LET a == sort_asc(items) IN [i \in 1..Len(a) |-> a[Len(a) + 1 - i]]

\* item put into a sequence sorted by descending val, after the items that are
\* not smaller: equal items keep the order in which they come.
RECURSIVE insert_desc(_, _)
insert_desc(sorted, item) ==
    IF sorted = <<>> THEN <<item>>
    ELSE IF Head(sorted).val >= item.val
    THEN <<Head(sorted)>> \o insert_desc(Tail(sorted), item)
    ELSE <<item>> \o sorted

\* sorted(items, key=val, reverse=True): stable, equal items keep their order.
RECURSIVE sorted_reverse(_)
sorted_reverse(items) ==
    IF items = <<>> THEN <<>>
    ELSE insert_desc(sorted_reverse(SubSeq(items, 1, Len(items) - 1)), items[Len(items)])

\* The loop of summarize_entries: totals[activity] = totals.get(activity, 0) + minutes.
RECURSIVE accumulate(_, _)
accumulate(totals, entries) ==
    IF entries = <<>> THEN totals
    ELSE accumulate(dict_set(totals, Head(entries).activity,
                             dict_get(totals, Head(entries).activity, 0)
                                 + Head(entries).duration_minutes),
                    Tail(entries))

summarize_entries(entries) == sorted_reverse(accumulate(<<>>, entries))

\* max(totals.items(), key=val): the first item of the largest val.
max_item(d) ==
    d[CHOOSE i \in 1..Len(d) :
        /\ \A j \in 1..Len(d) : d[j].val <= d[i].val
        /\ \A j \in 1..(i - 1) : d[j].val < d[i].val]

\* The total above which analyze_totals suggests rest.
RestMinutes == 600
\* The most activities that count as few.
FewActivities == 2

\* The share reached, not exceeded.
reaches_share(top, total) == 5 * top >= 3 * total

\* top > total_minutes * 0.6.  For every total up to 4000 and every top up to
\* the total, the comparison with the double total * 0.6 is that of 5 * top
\* with 3 * total.
exceeds_share(top, total) == 5 * top > 3 * total

\* The suggestions, each a tuple that starts with its kind.
analyze_totals(totals) ==
    LET total_minutes == sum_values(totals)
        top_activity  == max_item(totals)
        s1 == IF exceeds_share(top_activity.val, total_minutes)
              THEN <<<<"diversify", top_activity.key>>>> ELSE <<>>
        s2 == IF total_minutes > RestMinutes THEN s1 \o <<<<"rest">>>> ELSE s1
        s3 == IF Len(totals) <= FewActivities THEN s2 \o <<<<"few_categories">>>> ELSE s2
    IN  IF total_minutes = 0 THEN <<<<"no_data">>>>
        ELSE IF s3 = <<>> THEN <<<<"balanced">>>>
        ELSE s3

\* The report: its title, the total line, the line of each activity and the tips.
build_report(title, entries) ==
    LET totals == summarize_entries(entries)
    IN  [title |-> title, total_minutes |-> sum_values(totals),
         lines |-> totals, tips |-> analyze_totals(totals)]

(***************************************************************************)
(* SpecSummary: build_report applied to bounded sequences of entries       *)
(***************************************************************************)
\* The most entries summarized.
MaxSumEntries == 3
SumActivities == {<<"a">>, <<"b">>, <<"c">>}
\* 300 of 500 is the 60% share exactly; 3 * 200 is the rest threshold exactly.
SumDurations == {0, 200, 300, 700}
SumEntries ==
    {TimeEntry(Timestamp(<<2024, 3, 15>>, 0), a, d, <<>>) : a \in SumActivities, d \in SumDurations}

InitSummary ==
    /\ entriesIn \in UNION {[1..k -> SumEntries] : k \in 0..MaxSumEntries}
    /\ sumOut = <<>>
    /\ DurIdle /\ EntryIdle /\ PeriodIdle /\ CliIdle /\ ConcIdle

\* One call of build_report(title, entries).
Summarize ==
    /\ sumOut = <<>>
    /\ sumOut' = <<build_report("summary", entriesIn)>>
    /\ UNCHANGED <<entriesIn, durVars, entryVars, periodVars, cliVars, concVars>>

NextSummary == Summarize
SpecSummary == InitSummary /\ [][NextSummary]_vars

\* The sum of the durations of the entries of es with activity a.
RECURSIVE MinutesOf(_, _)
MinutesOf(es, a) ==
    IF es = <<>> THEN 0
    ELSE (IF Head(es).activity = a THEN Head(es).duration_minutes ELSE 0) + MinutesOf(Tail(es), a)
ActivitiesOf(es) == {es[i].activity : i \in 1..Len(es)}
FirstSeen(es, a) == Least({i \in 1..Len(es) : es[i].activity = a})
RECURSIVE TotalOf(_)
TotalOf(es) == IF es = <<>> THEN 0 ELSE Head(es).duration_minutes + TotalOf(Tail(es))

\* C5: summarize_entries gives one total per distinct activity, the sum of the
\* durations of its entries, by descending total, equal totals in the order in
\* which their activities were first met.
C5_summarize_entries ==
    sumOut # <<>> =>
        LET t == sumOut[1].lines
        IN  /\ {t[i].key : i \in 1..Len(t)} = ActivitiesOf(entriesIn)
            /\ Len(t) = Cardinality(ActivitiesOf(entriesIn))
            /\ \A i \in 1..Len(t) : t[i].val = MinutesOf(entriesIn, t[i].key)
            /\ \A i \in 1..Len(t) : \A j \in (i + 1)..Len(t) :
                  \/ t[i].val > t[j].val
                  \/ /\ t[i].val = t[j].val
                     /\ FirstSeen(entriesIn, t[i].key) < FirstSeen(entriesIn, t[j].key)

\* Three activities were summarized, the last two of equal total.
C5_witness ==
    /\ sumOut # <<>>
    /\ Len(sumOut[1].lines) = 3
    /\ sumOut[1].lines[2].val = sumOut[1].lines[3].val
    /\ sumOut[1].lines[1].val > sumOut[1].lines[2].val

Kinds(tips) == [i \in 1..Len(tips) |-> tips[i][1]]

\* C6: a grand total of 0 gives the "no data" suggestion alone; otherwise the
\* suggestions are, in this order, diversify iff the highest total exceeds 60%
\* of the grand total, rest iff the grand total exceeds 600, few categories iff
\* there are at most 2 activities, and "well balanced" alone iff none of the
\* three applies.  The result is never empty.
C6_analyze_totals ==
    sumOut # <<>> =>
        LET k     == Kinds(sumOut[1].tips)
            grand == TotalOf(entriesIn)
            acts  == ActivitiesOf(entriesIn)
            top   == CHOOSE m \in {MinutesOf(entriesIn, a) : a \in acts} :
                        \A a \in acts : MinutesOf(entriesIn, a) <= m
            three == (IF 10 * top > 6 * grand THEN <<"diversify">> ELSE <<>>)
                     \o (IF grand > 600 THEN <<"rest">> ELSE <<>>)
                     \o (IF Cardinality(acts) <= 2 THEN <<"few_categories">> ELSE <<>>)
        IN  /\ k # <<>>
            /\ grand = 0 => k = <<"no_data">>
            /\ grand # 0 => /\ three # <<>> => k = three
                            /\ three = <<>> => k = <<"balanced">>

\* The highest total is exactly 60% of the grand total: no diversify suggestion.
C6_witness ==
    /\ sumOut # <<>>
    /\ sumOut[1].total_minutes = 500
    /\ Len(sumOut[1].lines) = 2
    /\ sumOut[1].lines[1].val = 300
    /\ Kinds(sumOut[1].tips) = <<"few_categories">>

(***************************************************************************)
(* datetime.date: the proleptic Gregorian calendar of years 1 to 9999      *)
(***************************************************************************)
is_leap(y) == y % 4 = 0 /\ (y % 100 # 0 \/ y % 400 = 0)
days_before_year(y) ==
    (y - 1) * 365 + ((y - 1) \div 4) - ((y - 1) \div 100) + ((y - 1) \div 400)
MonthLengths == <<31, 28, 31, 30, 31, 30, 31, 31, 30, 31, 30, 31>>
days_in_month(y, m) == IF m = 2 /\ is_leap(y) THEN 29 ELSE MonthLengths[m]
RECURSIVE days_before_month(_, _)
days_before_month(y, m) ==
    IF m = 1 THEN 0 ELSE days_before_month(y, m - 1) + days_in_month(y, m - 1)

\* date.toordinal(): 1 for 0001-01-01.
toordinal(d) == days_before_year(d[1]) + days_before_month(d[1], d[2]) + d[3]

\* The month of the day n (1-based) of year y, and the day in it.
RECURSIVE month_of_day(_, _, _)
month_of_day(y, m, n) ==
    IF n <= days_in_month(y, m) THEN <<y, m, n>>
    ELSE month_of_day(y, m + 1, n - days_in_month(y, m))

\* date.fromordinal(n), by the 400, 100, 4 and 1 year cycles.
fromordinal(n) ==
    LET n0   == n - 1
        n400 == n0 \div 146097
        r400 == n0 % 146097
        n100 == r400 \div 36524
        r100 == r400 % 36524
        n4   == r100 \div 1461
        r4   == r100 % 1461
        n1   == r4 \div 365
        r1   == r4 % 365
        year == n400 * 400 + n100 * 100 + n4 * 4 + n1 + 1
    IN  IF n1 = 4 \/ n100 = 4 THEN <<year - 1, 12, 31>>
        ELSE month_of_day(year, 1, r1 + 1)

\* date.max.toordinal()
MaxOrdinal == toordinal(<<9999, 12, 31>>)

DateOk(d) == [ok |-> TRUE, date |-> d]
DateOverflow == [ok |-> FALSE, date |-> <<>>]

\* date + timedelta(days): OverflowError outside 0001-01-01 .. 9999-12-31.
date_add(d, days) ==
    LET o == toordinal(d) + days
    IN  IF 0 < o /\ o <= MaxOrdinal THEN DateOk(fromordinal(o)) ELSE DateOverflow

\* date.weekday(): Monday is 0.
weekday(d) == (toordinal(d) + 6) % 7

\* start <= date <= end on dates.
date_le(a, b) ==
    \/ a[1] < b[1]
    \/ a[1] = b[1] /\ a[2] < b[2]
    \/ a[1] = b[1] /\ a[2] = b[2] /\ a[3] <= b[3]

(***************************************************************************)
(* parse_period                                                            *)
(***************************************************************************)
PeriodError(msg) == [ok |-> FALSE, err |-> msg, start |-> <<>>, end |-> <<>>, title |-> <<>>]
Period(s, e, t) == [ok |-> TRUE, err |-> "", start |-> s, end |-> e, title |-> t]

\* (start + 32 days).replace(day=1) - 1 day
month_end(start) ==
    LET later == date_add(start, 32)
    IN  IF ~later.ok THEN DateOverflow
        ELSE date_add(<<later.date[1], later.date[2], 1>>, -1)

parse_period(kind, ref) ==
    IF kind = "daily" THEN Period(ref, ref, <<"daily", ref>>)
    ELSE IF kind = "weekly" THEN
        LET start == date_add(ref, -weekday(ref))
            end   == IF start.ok THEN date_add(start.date, 6) ELSE DateOverflow
        IN  IF start.ok /\ end.ok
            THEN Period(start.date, end.date, <<"weekly", start.date, end.date>>)
            ELSE PeriodError("date value out of range")
    ELSE IF kind = "monthly" THEN
        LET start == <<ref[1], ref[2], 1>>
            end   == month_end(start)
        IN  IF end.ok THEN Period(start, end.date, <<"monthly", ref[1], ref[2]>>)
            ELSE PeriodError("date value out of range")
    ELSE IF kind = "yearly" THEN
        Period(<<ref[1], 1, 1>>, <<ref[1], 12, 31>>, <<"yearly", ref[1]>>)
    ELSE PeriodError("Period must be daily, weekly, monthly, or yearly")

(***************************************************************************)
(* SpecPeriod: parse_period applied to every date of some years            *)
(***************************************************************************)
\* The first and the last year of datetime.date, a leap and a common year, a
\* century that is a leap year and one that is not.
RefYears == {1, 1900, 2000, 2023, 2024, 9999}
RefDates == {d \in RefYears \X (1..12) \X (1..31) : d[3] <= days_in_month(d[1], d[2])}
PeriodKinds == {"daily", "weekly", "monthly", "yearly"}
OtherKinds == {"quarterly"}

InitPeriod ==
    /\ period \in PeriodKinds \cup OtherKinds
    /\ reference \in RefDates
    /\ periodOut = <<>>
    /\ DurIdle /\ EntryIdle /\ SumIdle /\ CliIdle /\ ConcIdle

\* One call of parse_period(period, reference).
ParsePeriod ==
    /\ periodOut = <<>>
    /\ periodOut' = <<parse_period(period, reference)>>
    /\ UNCHANGED <<period, reference, durVars, entryVars, sumVars, cliVars, concVars>>

NextPeriod == ParsePeriod
SpecPeriod == InitPeriod /\ [][NextPeriod]_vars

\* The days a month has, and the days from 0001-01-01 to a date.
LeapYear(y) == (y % 4 = 0 /\ y % 100 # 0) \/ y % 400 = 0
LastDay(y, m) ==
    IF m \in {4, 6, 9, 11} THEN 30 ELSE IF m # 2 THEN 31 ELSE IF LeapYear(y) THEN 29 ELSE 28
DaysUpTo(d) ==
    LET LeapsBefore(y) == ((y - 1) \div 4) - ((y - 1) \div 100) + ((y - 1) \div 400)
        InYear == {md \in (1..12) \X (1..31) :
                      /\ md[2] <= LastDay(d[1], md[1])
                      /\ (md[1] < d[2] \/ (md[1] = d[2] /\ md[2] <= d[3]))}
    IN  365 * (d[1] - 1) + LeapsBefore(d[1]) + Cardinality(InYear)
\* 0001-01-01 is a Monday.
IsMonday(d) == DaysUpTo(d) % 7 = 1

\* The range that the period kind k has around the reference r is out.
RangeAsSpecified(k, r, out) ==
    /\ out.ok
    /\ date_le(out.start, r) /\ date_le(r, out.end)
    /\ k = "daily" => out.start = r /\ out.end = r
    /\ k = "weekly" => IsMonday(out.start) /\ DaysUpTo(out.end) = DaysUpTo(out.start) + 6
    /\ k = "monthly" => /\ out.start = <<r[1], r[2], 1>>
                        /\ out.end = <<r[1], r[2], LastDay(r[1], r[2])>>
    /\ k = "yearly" => out.start = <<r[1], 1, 1>> /\ out.end = <<r[1], 12, 31>>

\* C7: parse_period resolves, for every reference date, the day, the Monday to
\* Sunday week, the month (first to last day) or the year that contains it,
\* with start <= reference <= end, and fails for any other period kind.
C7_parse_period ==
    periodOut # <<>> =>
        IF period \in PeriodKinds
        THEN RangeAsSpecified(period, reference, periodOut[1])
        ELSE ~periodOut[1].ok

\* The week or the month of the reference ends after 9999-12-31.
PastLastDate(k, r) ==
    \/ k = "monthly" /\ r[1] = 9999 /\ r[2] = 12
    \/ k = "weekly" /\ r[1] = 9999 /\ r[2] = 12 /\ r[3] >= 27

\* Everywhere else the range is the specified one, and there the call fails.
parse_period_before_last_week ==
    periodOut # <<>> =>
        IF period \in OtherKinds \/ PastLastDate(period, reference)
        THEN ~periodOut[1].ok
        ELSE RangeAsSpecified(period, reference, periodOut[1])

(***************************************************************************)
(* Storage: ensure_storage, load_storage, save_storage, add_entry          *)
(***************************************************************************)
\* The file system maps the data file to its content; a file is absent, or
\* holds a JSON payload, CSV rows or a markdown report.  Any other path is a
\* file that no command reads: a write to it changes nothing here.
Absent == [kind |-> "absent", body |-> <<>>]
\* json.dumps(payload), as the file content it makes.
JsonFile(p) == [kind |-> "json", body |-> p]
EmptyPayload == [entries |-> <<>>, brainstorms |-> <<>>]

path_exists(fsys, path) == fsys[path].kind # "absent"
write_text(fsys, path, content) ==
    IF path \in DOMAIN fsys THEN [fsys EXCEPT ![path] = content] ELSE fsys

ensure_storage(fsys, path) ==
    IF path_exists(fsys, path) THEN fsys ELSE write_text(fsys, path, JsonFile(EmptyPayload))

\* load_storage: the file system after ensure_storage, and the payload that
\* json.loads returns, or its failure on a file that holds no JSON.
load_storage(fsys, path) ==
    LET f == ensure_storage(fsys, path)
    IN  IF f[path].kind = "json"
        THEN [fs |-> f, ok |-> TRUE, payload |-> f[path].body]
        ELSE [fs |-> f, ok |-> FALSE, payload |-> EmptyPayload]

save_storage(fsys, path, p) == write_text(fsys, path, JsonFile(p))

\* dataclasses.asdict
asdict(e) ==
    [timestamp |-> e.timestamp, activity |-> e.activity,
     duration_minutes |-> e.duration_minutes, note |-> e.note]

\* The entry put in front of the stored ones.
prepend_entry(p, entry) == [p EXCEPT !.entries = <<asdict(entry)>> \o @]
\* The entry put in place of the stored ones.
replace_entries(p, entry) == [p EXCEPT !.entries = <<asdict(entry)>>]

\* payload["entries"].append(asdict(entry))
append_entry(p, entry) == [p EXCEPT !.entries = Append(@, asdict(entry))]

add_entry(fsys, path, entry) ==
    LET l == load_storage(fsys, path)
    IN  IF ~l.ok THEN [fs |-> l.fs, ok |-> FALSE]
        ELSE [fs |-> save_storage(l.fs, path, append_entry(l.payload, entry)), ok |-> TRUE]

add_brainstorm(fsys, path, prompt) ==
    LET l == load_storage(fsys, path)
    IN  IF ~l.ok THEN [fs |-> l.fs, ok |-> FALSE]
        ELSE [fs |-> save_storage(l.fs, path,
                        [l.payload EXCEPT !.brainstorms = Append(@, prompt)]),
              ok |-> TRUE]

\* list(iter_entries(payload))
iter_entries(p) ==
    [i \in 1..Len(p.entries) |->
        TimeEntry(p.entries[i].timestamp, p.entries[i].activity,
                  p.entries[i].duration_minutes, p.entries[i].note)]

\* The entries of the half-open range start <= date < end.
RECURSIVE filter_entries_before_end(_, _, _)
filter_entries_before_end(entries, start, end) ==
    IF entries = <<>> THEN <<>>
    ELSE (IF /\ date_le(start, DateOf(Head(entries).timestamp))
             /\ date_le(DateOf(Head(entries).timestamp), end)
             /\ DateOf(Head(entries).timestamp) # end
          THEN <<Head(entries)>> ELSE <<>>)
         \o filter_entries_before_end(Tail(entries), start, end)

\* filter_entries: start <= date.fromisoformat(timestamp[:10]) <= end
RECURSIVE filter_entries(_, _, _)
filter_entries(entries, start, end) ==
    IF entries = <<>> THEN <<>>
    ELSE (IF /\ date_le(start, DateOf(Head(entries).timestamp))
             /\ date_le(DateOf(Head(entries).timestamp), end)
          THEN <<Head(entries)>> ELSE <<>>)
         \o filter_entries(Tail(entries), start, end)

(***************************************************************************)
(* The commands: handle_log, handle_summary, handle_report, handle_export, *)
(* handle_brainstorm.  Each gives the file system it leaves, whether it    *)
(* returned (ok) or raised, and what it printed.                           *)
(***************************************************************************)
Printed(what, report) == [what |-> what, report |-> report]
Done(fsys, out) == [fs |-> fsys, ok |-> TRUE, out |-> out]
Raised(fsys, msg) == [fs |-> fsys, ok |-> FALSE, out |-> Printed(msg, <<>>)]

\* No text: None or "".
None == <<>>

\* The entry stored although its activity is empty.
handle_log_store_first(fsys, path, txt, voice, heard, now) ==
    LET t == IF voice THEN heard ELSE txt
        e == parse_voice_or_text_input(t, now)
        d == parse_duration(search_for(split_note(t).text, 1).token)
    IN  IF voice /\ heard = None THEN Raised(fsys, "voice input unavailable")
        ELSE IF t = None THEN Raised(fsys, "no text")
        ELSE IF ~e.ok /\ e.err = "Activity cannot be empty."
        THEN Raised(add_entry(fsys, path, TimeEntry(now, <<>>, d.minutes, <<>>)).fs, e.err)
        ELSE IF ~e.ok THEN Raised(fsys, e.err)
        ELSE IF ~add_entry(fsys, path, e).ok
        THEN Raised(add_entry(fsys, path, e).fs, "JSONDecodeError")
        ELSE Done(add_entry(fsys, path, e).fs,
                  Printed("logged", <<e.activity, e.duration_minutes>>))

\* handle_log; heard is what maybe_use_speech_recognition returns.
handle_log(fsys, path, txt, voice, heard, now) ==
    LET t == IF voice THEN heard ELSE txt
        e == parse_voice_or_text_input(t, now)
    IN  IF voice /\ heard = None THEN Raised(fsys, "voice input unavailable")
        ELSE IF t = None THEN Raised(fsys, "no text")
        ELSE IF ~e.ok THEN Raised(fsys, e.err)
        ELSE IF ~add_entry(fsys, path, e).ok
        THEN Raised(add_entry(fsys, path, e).fs, "JSONDecodeError")
        ELSE Done(add_entry(fsys, path, e).fs,
                  Printed("logged", <<e.activity, e.duration_minutes>>))

\* [entry for entry in entries if entry.timestamp.startswith(today)]
todays_entries(entries, today) ==
    SelectSeq(entries, LAMBDA e : DateOf(e.timestamp) = today)

handle_summary(fsys, path, today) ==
    LET l == load_storage(fsys, path)
        todays == todays_entries(iter_entries(l.payload), today)
    IN  IF ~l.ok THEN Raised(l.fs, "JSONDecodeError")
        ELSE IF todays = <<>> THEN Done(l.fs, Printed("no entries today", <<>>))
        ELSE Done(l.fs, Printed("report", <<build_report(<<"today", today>>, todays)>>))

\* No --date argument.
NoDate == <<>>
\* date.fromisoformat of a --date argument <<year, month, day>>.
fromisoformat(d) ==
    IF /\ d[1] >= 1 /\ d[1] <= 9999 /\ d[2] >= 1 /\ d[2] <= 12
       /\ d[3] >= 1 /\ d[3] <= days_in_month(d[1], d[2])
    THEN DateOk(d) ELSE DateOverflow

handle_report(fsys, path, kind, date, today) ==
    LET ref == IF date # NoDate THEN fromisoformat(date) ELSE DateOk(today)
        r   == parse_period(kind, ref.date)
        l   == load_storage(fsys, path)
        selected == filter_entries(iter_entries(l.payload), r.start, r.end)
    IN  IF ~ref.ok THEN Raised(fsys, "Invalid isoformat string")
        ELSE IF ~r.ok THEN Raised(fsys, r.err)
        ELSE IF ~l.ok THEN Raised(l.fs, "JSONDecodeError")
        ELSE Done(l.fs, Printed("report", <<build_report(r.title, selected)>>))

\* What export_entries writes to the output file.
export_content(fmt, p) ==
    IF fmt = "json" THEN JsonFile(p)
    ELSE IF fmt = "csv" THEN [kind |-> "csv", body |-> iter_entries(p)]
    ELSE [kind |-> "markdown", body |-> build_report("all", iter_entries(p))]

export_entries(fsys, path, fmt, output) ==
    LET l == load_storage(fsys, path)
    IN  IF ~l.ok THEN [fs |-> l.fs, ok |-> FALSE]
        ELSE IF fmt \in {"json", "csv", "markdown"}
        THEN [fs |-> write_text(l.fs, output, export_content(fmt, l.payload)), ok |-> TRUE]
        ELSE [fs |-> l.fs, ok |-> FALSE]

handle_export(fsys, path, fmt, output) ==
    LET x == export_entries(fsys, path, fmt, output)
    IN  IF x.ok THEN Done(x.fs, Printed("exported", <<output>>))
        ELSE Raised(x.fs, "export failed")

BrainstormPrompt(ts, topic, thoughts) ==
    [timestamp |-> ts, topic |-> topic, thoughts |-> thoughts]

handle_brainstorm(fsys, path, topic, thoughts, now) ==
    LET a == add_brainstorm(fsys, path, BrainstormPrompt(now, topic, thoughts))
    IN  IF a.ok THEN Done(a.fs, Printed("brainstormed", <<topic, thoughts>>))
        ELSE Raised(a.fs, "JSONDecodeError")

(***************************************************************************)
(* Spec: the commands of main(), one process at a time on one data file    *)
(***************************************************************************)
\* The most entries and the most brainstorm prompts stored.
MaxEntries == 3
MaxBrainstorms == 2

\* args.data, and another path an export may name.
DataPath == "data.json"
OtherPath == "export.out"
Paths == {DataPath, OtherPath}

\* The days on which commands run: a Sunday that ends a week, a month and a
\* year, and the Monday after it.
ClockDates == {<<2023, 12, 31>>, <<2024, 1, 1>>}
\* --date arguments: none, a day, a day that does not exist, the last day.
DateArgs == {NoDate, <<2023, 12, 31>>, <<2024, 2, 30>>, <<9999, 12, 31>>}

\* Sentences given to log, typed or heard: two that parse, one of them with a
\* note, then a zero duration with a unit, no activity, no "for" clause.
LogTexts == {
    <<"a", " ", "f", "o", "r", " ", "5", "m">>,
    <<"b", " ", "f", "o", "r", " ", "1", "h", " ", "n", "o", "t", "e", ":", "n">>,
    <<"a", " ", "f", "o", "r", " ", "0", "m">>,
    <<"f", "o", "r", " ", "5", "m">>,
    <<"a", " ", "5", "m">> }

Command(name, args) == [name |-> name, args |-> args]

Init ==
    /\ fs \in {[p \in {DataPath} |-> Absent], [p \in {DataPath} |-> JsonFile(EmptyPayload)]}
    /\ clock = <<2023, 12, 31>>
    /\ cmd = Command("none", <<>>)
    /\ exitCode = 0
    /\ stdout = Printed("", <<>>)
    /\ DurIdle /\ EntryIdle /\ SumIdle /\ PeriodIdle /\ ConcIdle

\* main(): the command runs at time now; an exception it raises is printed
\* and the exit code is 1.
Run(name, args, now, result) ==
    /\ clock' = now
    /\ cmd' = Command(name, args)
    /\ fs' = result.fs
    /\ exitCode' = IF result.ok THEN 0 ELSE 1
    /\ stdout' = result.out
    /\ UNCHANGED <<durVars, entryVars, sumVars, periodVars, concVars>>

Later(now) == now \in ClockDates /\ date_le(clock, now)
Stored(fsys) == IF fsys[DataPath].kind = "json" THEN fsys[DataPath].body ELSE EmptyPayload

\* The typed text is not looked at when --voice is given, so it is left out
\* then; a log is taken while the file holds fewer than MaxEntries entries.
Log ==
    \E now \in ClockDates, txt \in LogTexts \cup {None}, voice \in BOOLEAN,
       heard \in {None, <<"a", " ", "f", "o", "r", " ", "5", "m">>} :
        /\ Later(now)
        /\ voice \/ heard = None
        /\ voice => txt = None
        /\ Len(Stored(fs).entries) < MaxEntries
        /\ Run("log", <<txt, voice, heard>>, now,
               handle_log(fs, DataPath, txt, voice, heard, Timestamp(now, 0)))

Brainstorm ==
    \E now \in ClockDates :
        /\ Later(now)
        /\ Len(Stored(fs).brainstorms) < MaxBrainstorms
        /\ Run("brainstorm", <<"topic", "thoughts">>, now,
               handle_brainstorm(fs, DataPath, "topic", "thoughts", Timestamp(now, 0)))

Summary ==
    \E now \in ClockDates :
        /\ Later(now)
        /\ Run("summary", <<>>, now, handle_summary(fs, DataPath, now))

Report ==
    \E now \in ClockDates, kind \in PeriodKinds, date \in DateArgs :
        /\ Later(now)
        /\ Run("report", <<kind, date>>, now, handle_report(fs, DataPath, kind, date, now))

Export ==
    \E now \in ClockDates, fmt \in {"json", "csv", "markdown"}, output \in Paths :
        /\ Later(now)
        /\ Run("export", <<fmt, output>>, now, handle_export(fs, DataPath, fmt, output))

Next == Log \/ Brainstorm \/ Summary \/ Report \/ Export
Spec == Init /\ [][Next]_vars

\* The document that a command would read back from the data file.
ReadBack(fsys) == load_storage(fsys, DataPath)
Readable(fsys) == ReadBack(fsys).ok
IsPrefix(a, b) == Len(a) <= Len(b) /\ SubSeq(b, 1, Len(a)) = a

\* C1: from an absent or empty data file, under log and brainstorm commands
\* run one at a time, each successful log adds exactly one entry at the end of
\* the entries, each brainstorm exactly one prompt at the end of the
\* brainstorms, and what was stored before stays, unchanged and in its order.
C1_append_only ==
    [][(cmd'.name \in {"log", "brainstorm"} /\ Readable(fs)) =>
          LET before == ReadBack(fs).payload
              after  == ReadBack(fs').payload
          IN  /\ Readable(fs')
              /\ IsPrefix(before.entries, after.entries)
              /\ IsPrefix(before.brainstorms, after.brainstorms)
              /\ (cmd'.name = "log" /\ exitCode' = 0) =>
                    /\ Len(after.entries) = Len(before.entries) + 1
                    /\ after.brainstorms = before.brainstorms
              /\ (cmd'.name = "log" /\ exitCode' = 1) => after = before
              /\ cmd'.name = "brainstorm" =>
                    /\ exitCode' = 0
                    /\ Len(after.brainstorms) = Len(before.brainstorms) + 1
                    /\ after.entries = before.entries]_vars

\* A second, different entry has been logged after a first one and a prompt.
C1_witness ==
    /\ cmd.name = "log" /\ exitCode = 0
    /\ fs[DataPath].kind = "json"
    /\ Len(fs[DataPath].body.entries) = 2
    /\ fs[DataPath].body.entries[1] # fs[DataPath].body.entries[2]
    /\ Len(fs[DataPath].body.brainstorms) = 1

\* The sentence that the log command args = <<text, voice, heard>> parses.
Spoken(args) == IF args[2] THEN args[3] ELSE args[1]
\* The failures of a log command: voice input unavailable, no text, no
\* "for <duration>" clause, a duration token that does not parse, no activity.
LogFails(args) ==
    LET t  == Spoken(args)
        b  == BeforeNote(t)
        fp == ForPlaces(b)
    IN  \/ args[2] /\ args[3] = None
        \/ t = None
        \/ fp = {}
        \/ ~parse_duration(TokenAfter(b, Least(fp))).ok
        \/ strip(Slice(b, 1, Least(fp) - 1)) = <<>>

\* C2: a log command that fails for one of these reasons ends with exit code 1
\* and leaves the stored entries and brainstorms exactly as they were.
C2_no_partial_write ==
    [][(cmd'.name = "log" /\ Readable(fs)) =>
          /\ LogFails(cmd'.args) => exitCode' = 1
          /\ exitCode' = 1 =>
                /\ Readable(fs')
                /\ ReadBack(fs').payload = ReadBack(fs).payload]_vars

\* A log command without an activity has failed on a file that holds an entry.
C2_witness ==
    /\ cmd.name = "log" /\ exitCode = 1
    /\ cmd.args[1] = <<"f", "o", "r", " ", "5", "m">>
    /\ fs[DataPath].kind = "json"
    /\ Len(fs[DataPath].body.entries) = 1

\* C8: report, summary and export never change the stored document, whatever
\* the format and the output path: the entries and brainstorms read back after
\* the command are those before it (an absent file counting as empty).
C8_read_only_commands ==
    [][(cmd'.name \in {"report", "summary", "export"} /\ Readable(fs)) =>
          /\ Readable(fs')
          /\ ReadBack(fs').payload = ReadBack(fs).payload]_vars

\* The same for every command but an export, other than as JSON, onto the data
\* file itself.
read_only_off_data_file ==
    [][(/\ cmd'.name \in {"report", "summary", "export"}
        /\ Readable(fs)
        /\ ~(cmd'.name = "export" /\ cmd'.args[2] = DataPath /\ cmd'.args[1] # "json")) =>
          /\ Readable(fs')
          /\ ReadBack(fs').payload = ReadBack(fs).payload]_vars

\* The stored entries dated from start to end, by the count of days.
RECURSIVE InRange(_, _, _)
InRange(es, start, end) ==
    IF es = <<>> THEN <<>>
    ELSE (IF /\ DaysUpTo(start) <= DaysUpTo(DateOf(Head(es).timestamp))
             /\ DaysUpTo(DateOf(Head(es).timestamp)) <= DaysUpTo(end)
          THEN <<Head(es)>> ELSE <<>>) \o InRange(Tail(es), start, end)

\* C10: a period report accounts for exactly the stored entries dated within
\* the range that parse_period resolves: its grand total is the sum of their
\* durations and the sum of the activity totals it prints, each of which is
\* the sum for that activity; entries outside the range contribute nothing.
C10_report_covers_range ==
    (cmd.name = "report" /\ exitCode = 0) =>
        LET ref == IF cmd.args[2] = NoDate THEN clock ELSE cmd.args[2]
            r   == parse_period(cmd.args[1], ref)
            in  == InRange(fs[DataPath].body.entries, r.start, r.end)
            rep == stdout.report[1]
        IN  /\ rep.total_minutes = TotalOf(in)
            /\ rep.total_minutes = sum_values(rep.lines)
            /\ {rep.lines[i].key : i \in 1..Len(rep.lines)} = ActivitiesOf(in)
            /\ \A i \in 1..Len(rep.lines) : rep.lines[i].val = MinutesOf(in, rep.lines[i].key)

\* A daily report of the day of one of two stored entries, the other one
\* dated the day before.
C10_witness ==
    /\ cmd.name = "report" /\ exitCode = 0
    /\ cmd.args[1] = "daily"
    /\ Len(fs[DataPath].body.entries) = 2
    /\ stdout.report[1].total_minutes > 0
    /\ stdout.report[1].total_minutes < TotalOf(fs[DataPath].body.entries)

(***************************************************************************)
(* SpecConc: two log commands, each its own process, on one data file.     *)
(* A process takes the steps of handle_log and add_entry one file          *)
(* operation at a time: parse, path.exists(), write_text of the empty      *)
(* document, read_text, write_text of the payload with the entry appended. *)
(***************************************************************************)
Procs == {1, 2}
Other(p) == 3 - p
ConcTexts == {
    <<"a", " ", "f", "o", "r", " ", "5", "m">>,
    <<"b", " ", "f", "o", "r", " ", "1", "h">>,
    <<"f", "o", "r", " ", "5", "m">> }
\* The data file when the commands start: absent, empty, or with an entry.
ConcFiles == {
    Absent,
    JsonFile(EmptyPayload),
    JsonFile(append_entry(EmptyPayload, TimeEntry(Timestamp(<<2023, 12, 31>>, 0), <<"c">>, 7, <<>>))) }

InitConc ==
    /\ \E f \in ConcFiles :
          /\ fs = [p \in {DataPath} |-> f]
          /\ hist = [overlap |-> FALSE, raced |-> FALSE,
                     base |-> IF f.kind = "json" THEN f.body.entries ELSE <<>>]
    /\ cmd \in [Procs -> ConcTexts]
    /\ pc = [p \in Procs |-> "start"]
    /\ payload = [p \in Procs |-> EmptyPayload]
    /\ newEntry = [p \in Procs |-> ParseError("")]
    /\ exitCode = [p \in Procs |-> 0]
    /\ clock = <<2024, 1, 1>>
    /\ stdout = Idle
    /\ DurIdle /\ EntryIdle /\ SumIdle /\ PeriodIdle

ConcFrame == UNCHANGED <<durVars, entryVars, sumVars, periodVars, clock, cmd, stdout>>

\* handle_log up to the call of add_entry: the sentence is parsed; a failure
\* ends the command with exit code 1.
ConcParse(p) ==
    /\ pc[p] = "start"
    /\ LET e == parse_voice_or_text_input(cmd[p], Timestamp(clock, p))
       IN  /\ newEntry' = [newEntry EXCEPT ![p] = e]
           /\ pc' = [pc EXCEPT ![p] = IF e.ok THEN "exists" ELSE "done"]
           /\ exitCode' = [exitCode EXCEPT ![p] = IF e.ok THEN 0 ELSE 1]
    /\ hist' = [hist EXCEPT !.overlap = @ \/ pc[Other(p)] \notin {"start", "done"}]
    /\ UNCHANGED <<fs, payload>>
    /\ ConcFrame

\* ensure_storage: if not path.exists()
ConcExists(p) ==
    /\ pc[p] = "exists"
    /\ pc' = [pc EXCEPT ![p] = IF path_exists(fs, DataPath) THEN "read" ELSE "create"]
    /\ UNCHANGED <<fs, payload, newEntry, exitCode, hist>>
    /\ ConcFrame

\* ensure_storage: path.write_text(the empty document)
ConcCreate(p) ==
    /\ pc[p] = "create"
    /\ fs' = write_text(fs, DataPath, JsonFile(EmptyPayload))
    /\ pc' = [pc EXCEPT ![p] = "read"]
    /\ UNCHANGED <<payload, newEntry, exitCode, hist>>
    /\ ConcFrame

\* load_storage: json.loads(path.read_text())
ConcRead(p) ==
    /\ pc[p] = "read"
    /\ payload' = [payload EXCEPT ![p] = fs[DataPath].body]
    /\ pc' = [pc EXCEPT ![p] = "save"]
    /\ hist' = [hist EXCEPT !.raced = @ \/ pc[Other(p)] = "save"]
    /\ UNCHANGED <<fs, newEntry, exitCode>>
    /\ ConcFrame

\* add_entry: the append to the loaded payload and save_storage; then
\* handle_log prints and the command ends with exit code 0.
ConcSave(p) ==
    /\ pc[p] = "save"
    /\ fs' = save_storage(fs, DataPath, append_entry(payload[p], newEntry[p]))
    /\ pc' = [pc EXCEPT ![p] = "done"]
    /\ UNCHANGED <<payload, newEntry, exitCode, hist>>
    /\ ConcFrame

NextConc ==
    \E p \in Procs :
        ConcParse(p) \/ ConcExists(p) \/ ConcCreate(p) \/ ConcRead(p) \/ ConcSave(p)
SpecConc == InitConc /\ [][NextConc]_vars

BothLogged ==
    /\ \A p \in Procs : pc[p] = "done" /\ newEntry[p].ok /\ exitCode[p] = 0
ConcStored == fs[DataPath].body.entries

\* C9: add_entry is not atomic.  When both commands have ended with success,
\* the file holds what it held before and then one or both of the new
\* entries; it holds only one whenever one command loaded while the other had
\* loaded and not yet saved, and both whenever the commands ran one after the
\* other.
C9_lost_update ==
    BothLogged =>
        /\ ConcStored \in
              {hist.base \o <<asdict(newEntry[p])>> : p \in Procs}
              \cup {hist.base \o <<asdict(newEntry[p]), asdict(newEntry[Other(p)])>> : p \in Procs}
        /\ hist.raced => Len(ConcStored) = Len(hist.base) + 1
        /\ ~hist.overlap => Len(ConcStored) = Len(hist.base) + 2

\* Both commands reported success after both had loaded before either saved,
\* and the file holds one entry more than before, not two.
C9_witness ==
    /\ BothLogged
    /\ hist.raced
    /\ newEntry[1] # newEntry[2]
    /\ Len(hist.base) = 1
    /\ Len(ConcStored) = 2

=============================================================================
